---- MODULE Spec2Model ----
(***************************************************************************)
(* State-machine model of index.js: an express server with the routes      *)
(* POST /api/register, POST /api/login, GET /api/users and POST            *)
(* /api/chatbot, the authenticateToken middleware and getChatGPTResponse.  *)
(*                                                                         *)
(* Every request is one slot r \in Reqs.  A handler is cut at its awaits:  *)
(* the synchronous code up to an await and the store operation the await   *)
(* waits for form one atomic step, and the steps of different requests     *)
(* interleave freely, as on the node event loop.                           *)
(***************************************************************************)
EXTENDS Integers, Sequences, FiniteSets, TLC

(* ------------------------------ bounds --------------------------------- *)

\* number of requests the server receives in one behaviour
NumReqs == 2

\* last value of the clock
MaxTime == 3

\* expiresIn: '1h', in clock ticks (one tick is half an hour)
ExpiresIn == 2

Reqs == 1..NumReqs

(* ------------------------------ values --------------------------------- *)

\* JavaScript undefined, for a string-valued field that is absent
Undef == "<undefined>"

Emails == {"a@x", "c@x"}
Passwords == {"pw1", "pw2"}
Names == {"luffy"}
Messages == {"m1", "m2"}
SystemRoles == {"pirate", "ninja"}
Replies == {"aye"}

\* the message of the r-th request, when each client sends a text of its own
MessageNames == <<"m1", "m2", "m3", "m4", "m5", "m6">>
MessageOf(r) == MessageNames[r]

\* a value is truthy unless it is undefined or the empty string
Truthy(s) == s # Undef /\ s # ""

\* id of a user whose record is not in the store (the store was reset after
\* the token was issued: the token is stateless and outlives the record)
GhostId == NumReqs + 3

\* process.env.JWT_SECRET
JwtSecret == "JWT_SECRET"

(* A piece of an Authorization header or a token.  kind is "bearer" for     *)
(* the text 'Bearer ', "jwt" for a signed token, "garbage" for other text. *)
Chunk(kind, id, iat, exp, sig) ==
    [kind |-> kind, id |-> id, iat |-> iat, exp |-> exp, sig |-> sig]

BearerPrefix == Chunk("bearer", 0, 0, 0, "")
Garbage == Chunk("garbage", 0, 0, 0, "")
NoToken == Chunk("none", 0, 0, 0, "")

\* jwt.sign({ id }, JWT_SECRET, { expiresIn: '1h' }) at time t
JwtSign(id, t) == Chunk("jwt", id, t, t + ExpiresIn, JwtSecret)

\* faulty variant: the expiry is not checked
JwtVerify_NoExpiry(tok, t) == tok.kind = "jwt" /\ tok.sig = JwtSecret

\* jwt.verify(token, JWT_SECRET) at time t does not throw: the signature is
\* right and the token is not expired (it is expired from exp on)
JwtVerify(tok, t) == tok.kind = "jwt" /\ tok.sig = JwtSecret /\ t < tok.exp

\* a token signed with another secret
Forged(id, t) == Chunk("jwt", id, t, t + ExpiresIn, "other")

\* the token of a user whose record is no longer in the store
GhostToken == JwtSign(GhostId, 0)

(* An Authorization header: absent, or a sequence of chunks.               *)
Header(present, chunks) == [present |-> present, chunks |-> chunks]
NoHeader == Header(FALSE, <<>>)

\* String.prototype.replace('Bearer ', ''): removes the first occurrence
RECURSIVE ReplaceBearer(_)
ReplaceBearer(chunks) ==
    IF chunks = <<>> THEN <<>>
    ELSE IF Head(chunks).kind = "bearer" THEN Tail(chunks)
    ELSE <<Head(chunks)>> \o ReplaceBearer(Tail(chunks))

\* req.header('Authorization')?.replace('Bearer ', ''): undefined for an
\* absent header, else the header text without its first 'Bearer '
ExtractToken(h) == IF h.present THEN ReplaceBearer(h.chunks) ELSE <<>>

\* !token: undefined or the empty string
TokenMissing(h) == ~h.present \/ ExtractToken(h) = <<>>

\* the text handed to jwt.verify is a token only if it is one chunk
TokenOf(h) ==
    IF Len(ExtractToken(h)) = 1 THEN ExtractToken(h)[1] ELSE Garbage

(* bcrypt.hash(password, 10): salted digest; bcrypt.compare recomputes it  *)
BcryptHash(password, salt) == <<"$2b$10$", salt, password>>
BcryptCompare(password, hash) == hash = BcryptHash(password, hash[2])

(* ------------------------------ records -------------------------------- *)

UserDoc(id, name, email, password, systemRole) ==
    [id |-> id, name |-> name, email |-> email,
     password |-> password, systemRole |-> systemRole]

\* null, the result of findOne / findById that matches nothing
NoUser == UserDoc(-1, Undef, Undef, <<>>, Undef)

\* a Conversation document; _id is unique: <<r, n>> is the n-th document that
\* request r creates
Turn(id, userId, role, content) ==
    [id |-> id, userId |-> userId, role |-> role, content |-> content]

Msg(role, content) == [role |-> role, content |-> content]

Response(status, message, token, response, users) ==
    [status |-> status, message |-> message, token |-> token,
     response |-> response, users |-> users]

NoResponse == Response(0, Undef, NoToken, Undef, {})

\* what a request carries; at is the time it arrives and existed tells whether
\* a user record with its email was in the store at that time
Request(route, name, email, password, auth, message, systemRole, at, existed) ==
    [route |-> route, name |-> name, email |-> email, password |-> password,
     auth |-> auth, message |-> message, systemRole |-> systemRole,
     at |-> at, existed |-> existed]

NoRequest == Request("none", Undef, Undef, Undef, NoHeader, Undef, Undef, 0, FALSE)

\* req.user.id and the locals of the chatbot handler; seen is the number of
\* documents the Conversation collection held when the handler read it
Context(user, doc, conversation, botResponse, seen) ==
    [user |-> user, doc |-> doc, conversation |-> conversation,
     botResponse |-> botResponse, seen |-> seen]

NoContext == Context(-1, NoUser, <<>>, Undef, 0)

(* --------------------------- response texts ---------------------------- *)

MsgNoToken == "no token"
MsgInvalidToken == "invalid token"
MsgAllFields == "enter all fields"
MsgUserExists == "user already exists"
MsgRegistered == "user registered"
MsgServerError == "server error"
MsgLoginFields == "enter email and password"
MsgLoginNoUser == "wrong email or password"
\* faulty variant: a message of its own for the wrong password
MsgLoginBadPassword_Leak == "wrong password"
MsgLoginBadPassword == "wrong email or password"
MsgLoginOk == "login ok"
MsgChatError == "error talking to ChatGPT"
DefaultSystemRole == "You are a helpful assistant."

(* ------------------------------- state --------------------------------- *)

VARIABLES
    users,                \* the User collection: a set of user documents
    convs,                \* the Conversation collection, in insertion order
    now,                  \* the clock
    conversationDefined,  \* whether the identifier Conversation resolves
    pc,                   \* pc[r]: where request r is
    req,                  \* req[r]: what request r carries
    resp,                 \* resp[r]: the response sent for request r
    ctx,                  \* ctx[r]: req.user and the handler's locals
    apiCalls              \* apiCalls[r]: the message lists sent to the API

vars == <<users, convs, now, conversationDefined, pc, req, resp, ctx, apiCalls>>

(* The database outlives the process: when the server starts, the store is *)
(* empty, or it holds what earlier runs wrote: here two users, whose       *)
(* clients still hold the tokens they were given at time 0 (a token is     *)
(* stateless), and one finished chat of the second user.                   *)
Alice == UserDoc(NumReqs + 1, "luffy", "a@x", BcryptHash("pw1", NumReqs + 1), Undef)
Bob == UserDoc(NumReqs + 2, "zoro", "b@x", BcryptHash("pw2", NumReqs + 2), Undef)

BobsChat ==
    <<Turn(<<0, 1>>, Bob.id, "user", "m0"), Turn(<<0, 2>>, Bob.id, "assistant", "aye")>>

(* index.js neither declares nor imports Conversation (only User, line 3). *)
(* The identifier resolves at line 199 only if a module loaded outside     *)
(* this file has put it on the global object; otherwise evaluating it      *)
(* throws a ReferenceError.  Both outcomes are modelled.                   *)
Init ==
    /\ \/ users = {} /\ convs = <<>>
       \/ users = {Alice, Bob} /\ convs = BobsChat
    /\ now = 0
    /\ conversationDefined \in BOOLEAN
    /\ pc = [r \in Reqs |-> "idle"]
    /\ req = [r \in Reqs |-> NoRequest]
    /\ resp = [r \in Reqs |-> NoResponse]
    /\ ctx = [r \in Reqs |-> NoContext]
    /\ apiCalls = [r \in Reqs |-> <<>>]

\* requests are numbered in the order they arrive
CanArrive(r) == pc[r] = "idle" /\ (IF r = 1 THEN TRUE ELSE pc[r - 1] # "idle")

\* res.status(s).json(body): the response is sent and the request is over
Respond(r, response) ==
    /\ resp' = [resp EXCEPT ![r] = response]
    /\ pc' = [pc EXCEPT ![r] = "done"]

Goto(r, label) == pc' = [pc EXCEPT ![r] = label] /\ UNCHANGED resp

\* the tokens a client can hold: those the server has handed out in a
\* response, and those of the users registered before the first request
IssuedTokens ==
    ({resp[r].token : r \in Reqs} \ {NoToken})
    \cup {JwtSign(u.id, 0) : u \in {v \in users : v.id \notin Reqs}}

\* the Authorization headers a client can send: none, 'Bearer ' alone,
\* 'Bearer ' and garbage, a forged token, a token that expired before the
\* server started, the token of a user whose record is gone, and every
\* token it holds, with and without 'Bearer '
Headers ==
    {NoHeader, Header(TRUE, <<BearerPrefix>>), Header(TRUE, <<BearerPrefix, Garbage>>),
     Header(TRUE, <<BearerPrefix, Forged(GhostId, 0)>>),
     Header(TRUE, <<BearerPrefix, JwtSign(GhostId, 0 - ExpiresIn)>>),
     Header(TRUE, <<BearerPrefix, GhostToken>>)}
    \cup {Header(TRUE, <<BearerPrefix, t>>) : t \in IssuedTokens}
    \cup {Header(TRUE, <<t>>) : t \in IssuedTokens}

\* the headers of clients that send 'Bearer ' and a token they hold
BearerHeaders(tokens) == {Header(TRUE, <<BearerPrefix, t>>) : t \in tokens}

(* --------------------------- the user store ---------------------------- *)

\* faulty variant: the lookup finds nothing
FindOneByEmail_Blind(us, email) == {NoUser}

\* User.findOne({ email }): a document with that email, or null
FindOneByEmail(us, email) ==
    IF \E u \in us : u.email = email
    THEN {u \in us : u.email = email}
    ELSE {NoUser}

\* User.findById(id)
FindById(us, id) ==
    IF \E u \in us : u.id = id THEN CHOOSE u \in us : u.id = id ELSE NoUser

\* faulty variant: the collection has no unique index
DuplicateKey_NoIndex(us, email) == FALSE

\* the unique index on email rejects the insert (duplicate key error)
DuplicateKey(us, email) == \E u \in us : u.email = email

\* User.find({}, { password: 0 })
WithoutPassword(us) ==
    {[id |-> u.id, name |-> u.name, email |-> u.email, systemRole |-> u.systemRole] : u \in us}

(* ------------------------- POST /api/register -------------------------- *)

RegisterStartWith(r, names, emails, passwords) ==
    /\ CanArrive(r)
    /\ \E name \in names, email \in emails, password \in passwords :
          /\ req' = [req EXCEPT ![r] =
                 Request("register", name, email, password, NoHeader, Undef, Undef,
                         now, \E u \in users : u.email = email)]
          /\ IF ~Truthy(name) \/ ~Truthy(email) \/ ~Truthy(password)
             THEN Respond(r, Response(400, MsgAllFields, NoToken, Undef, {}))
             ELSE Goto(r, "reg_find")
    /\ UNCHANGED <<users, convs, now, conversationDefined, ctx, apiCalls>>

RegisterStart(r) ==
    RegisterStartWith(r, Names \cup {Undef}, Emails \cup {Undef}, Passwords \cup {Undef})

\* const existingUser = await User.findOne({ email })
RegisterFind(r) ==
    /\ pc[r] = "reg_find"
    /\ \E existingUser \in FindOneByEmail(users, req[r].email) :
          IF existingUser # NoUser
          THEN Respond(r, Response(400, MsgUserExists, NoToken, Undef, {}))
          ELSE Goto(r, "reg_save")
    /\ UNCHANGED <<users, convs, now, conversationDefined, req, ctx, apiCalls>>

\* bcrypt.hash, new User(...), await newUser.save(), jwt.sign, 201
RegisterSave(r) ==
    /\ pc[r] = "reg_save"
    /\ LET newUser == UserDoc(r, req[r].name, req[r].email,
                              BcryptHash(req[r].password, r), Undef)
       IN IF DuplicateKey(users, req[r].email)
          THEN /\ Respond(r, Response(500, MsgServerError, NoToken, Undef, {}))
               /\ UNCHANGED users
          ELSE /\ users' = users \cup {newUser}
               /\ Respond(r, Response(201, MsgRegistered, JwtSign(newUser.id, now),
                                      Undef, {}))
    /\ UNCHANGED <<convs, now, conversationDefined, req, ctx, apiCalls>>

(* --------------------------- POST /api/login --------------------------- *)

LoginStartWith(r, emails, passwords) ==
    /\ CanArrive(r)
    /\ \E email \in emails, password \in passwords :
          /\ req' = [req EXCEPT ![r] =
                 Request("login", Undef, email, password, NoHeader, Undef, Undef,
                         now, \E u \in users : u.email = email)]
          /\ IF ~Truthy(email) \/ ~Truthy(password)
             THEN Respond(r, Response(400, MsgLoginFields, NoToken, Undef, {}))
             ELSE Goto(r, "login_find")
    /\ UNCHANGED <<users, convs, now, conversationDefined, ctx, apiCalls>>

LoginStart(r) == LoginStartWith(r, Emails \cup {Undef}, Passwords \cup {Undef})

\* const user = await User.findOne({ email })
LoginFind(r) ==
    /\ pc[r] = "login_find"
    /\ \E user \in FindOneByEmail(users, req[r].email) :
          IF user = NoUser
          THEN /\ Respond(r, Response(400, MsgLoginNoUser, NoToken, Undef, {}))
               /\ UNCHANGED ctx
          ELSE /\ ctx' = [ctx EXCEPT ![r].doc = user]
               /\ Goto(r, "login_compare")
    /\ UNCHANGED <<users, convs, now, conversationDefined, req, apiCalls>>

\* const isMatch = await bcrypt.compare(password, user.password)
LoginCompare(r) ==
    /\ pc[r] = "login_compare"
    /\ IF ~BcryptCompare(req[r].password, ctx[r].doc.password)
       THEN Respond(r, Response(400, MsgLoginBadPassword, NoToken, Undef, {}))
       ELSE Respond(r, Response(200, MsgLoginOk, JwtSign(ctx[r].doc.id, now), Undef, {}))
    /\ UNCHANGED <<users, convs, now, conversationDefined, req, ctx, apiCalls>>

(* -------------------------- authenticateToken -------------------------- *)

\* faulty variant: next() is called whatever the header holds
AuthenticateToken_NoCheck(r, h, label) ==
    /\ ctx' = [ctx EXCEPT ![r].user = TokenOf(h).id]
    /\ Goto(r, label)

\* 401 without a token, 403 when jwt.verify throws; else req.user = verified
\* and next() enters the handler, which runs up to its first await
AuthenticateToken(r, h, label) ==
    IF TokenMissing(h)
    THEN /\ Respond(r, Response(401, MsgNoToken, NoToken, Undef, {}))
         /\ UNCHANGED ctx
    ELSE IF JwtVerify(TokenOf(h), now)
    THEN /\ ctx' = [ctx EXCEPT ![r].user = TokenOf(h).id]
         /\ Goto(r, label)
    ELSE /\ Respond(r, Response(403, MsgInvalidToken, NoToken, Undef, {}))
         /\ UNCHANGED ctx

(* ---------------------------- GET /api/users --------------------------- *)

UsersStartWith(r, headers) ==
    /\ CanArrive(r)
    /\ \E h \in headers :
          /\ req' = [req EXCEPT ![r] =
                 Request("users", Undef, Undef, Undef, h, Undef, Undef, now, FALSE)]
          /\ AuthenticateToken(r, h, "users_find")
    /\ UNCHANGED <<users, convs, now, conversationDefined, apiCalls>>

UsersStart(r) == UsersStartWith(r, Headers)

\* const users = await User.find({}, { password: 0 })
UsersFind(r) ==
    /\ pc[r] = "users_find"
    /\ Respond(r, Response(200, Undef, NoToken, Undef, WithoutPassword(users)))
    /\ UNCHANGED <<users, convs, now, conversationDefined, req, ctx, apiCalls>>

(* ------------------------- getChatGPTResponse -------------------------- *)

\* conversation.map(c => ({ role: c.role, content: c.content }))
RECURSIVE MapTurns(_)
MapTurns(conversation) ==
    IF conversation = <<>> THEN <<>>
    ELSE <<Msg(Head(conversation).role, Head(conversation).content)>>
         \o MapTurns(Tail(conversation))

\* faulty variant: the query does not filter by user
FindConversation_AllUsers(cs, userId) == cs

\* Conversation.find({ userId }): the documents of that user, in the order
\* the collection holds them (documents are only ever inserted)
FindConversation(cs, userId) ==
    LET Mine(c) == c.userId = userId IN SelectSeq(cs, Mine)

\* the messages of openai.chat.completions.create: the system message
\* (systemRole || "You are a helpful assistant."), then ...messages
ApiMessages(messages, systemRole) ==
    <<Msg("system", IF Truthy(systemRole) THEN systemRole ELSE DefaultSystemRole)>>
    \o messages

(* -------------------------- POST /api/chatbot -------------------------- *)

ChatStartWith(r, headers, messages, systemRoles) ==
    /\ CanArrive(r)
    /\ \E h \in headers, message \in messages, systemRole \in systemRoles :
          /\ req' = [req EXCEPT ![r] =
                 Request("chatbot", Undef, Undef, Undef, h, message, systemRole,
                         now, FALSE)]
          /\ AuthenticateToken(r, h, "chat_user")
    /\ UNCHANGED <<users, convs, now, conversationDefined, apiCalls>>

ChatStart(r) == ChatStartWith(r, Headers, Messages, SystemRoles \cup {Undef, ""})

\* const user = await User.findById(userId); if (systemRole) user.systemRole
\* = systemRole, which throws a TypeError when user is null
ChatFindById(r) ==
    /\ pc[r] = "chat_user"
    /\ LET user == FindById(users, ctx[r].user)
       IN IF Truthy(req[r].systemRole)
          THEN IF user = NoUser
               THEN /\ Respond(r, Response(500, MsgChatError, NoToken, Undef, {}))
                    /\ UNCHANGED ctx
               ELSE /\ ctx' = [ctx EXCEPT ![r].doc =
                                  [user EXCEPT !.systemRole = req[r].systemRole]]
                    /\ Goto(r, "chat_save_role")
          ELSE /\ ctx' = [ctx EXCEPT ![r].doc = user]
               /\ Goto(r, "chat_find")
    /\ UNCHANGED <<users, convs, now, conversationDefined, req, apiCalls>>

\* await user.save(): writes the modified path systemRole of that document
ChatSaveRole(r) ==
    /\ pc[r] = "chat_save_role"
    /\ users' = {IF u.id = ctx[r].doc.id
                 THEN [u EXCEPT !.systemRole = ctx[r].doc.systemRole]
                 ELSE u : u \in users}
    /\ Goto(r, "chat_find")
    /\ UNCHANGED <<convs, now, conversationDefined, req, ctx, apiCalls>>

\* faulty variant: user?.systemRole: a null user counts as a user without a role
ChatFind_NullSafe(r) ==
    /\ pc[r] = "chat_find"
    /\ IF ~conversationDefined
       THEN /\ Respond(r, Response(500, MsgChatError, NoToken, Undef, {}))
            /\ UNCHANGED <<ctx, apiCalls>>
       ELSE LET conversation == FindConversation(convs, ctx[r].user)
                messages == MapTurns(conversation)
                                \o <<Msg("user", req[r].message)>>
            IN /\ ctx' = [ctx EXCEPT ![r].conversation = conversation,
                                     ![r].seen = Len(convs)]
               /\ apiCalls' = [apiCalls EXCEPT ![r] =
                      Append(@, ApiMessages(messages, ctx[r].doc.systemRole))]
               /\ Goto(r, "chat_api")
    /\ UNCHANGED <<users, convs, now, conversationDefined, req>>

\* const conversation = await Conversation.find({ userId }), then the call of
\* getChatGPTResponse, whose arguments are evaluated first: user.systemRole
\* throws a TypeError when user is null
ChatFind(r) ==
    /\ pc[r] = "chat_find"
    /\ IF ~conversationDefined \/ ctx[r].doc = NoUser
       THEN /\ Respond(r, Response(500, MsgChatError, NoToken, Undef, {}))
            /\ UNCHANGED <<ctx, apiCalls>>
       ELSE LET conversation == FindConversation(convs, ctx[r].user)
                messages == MapTurns(conversation)
                                \o <<Msg("user", req[r].message)>>
            IN /\ ctx' = [ctx EXCEPT ![r].conversation = conversation,
                                     ![r].seen = Len(convs)]
               /\ apiCalls' = [apiCalls EXCEPT ![r] =
                      Append(@, ApiMessages(messages, ctx[r].doc.systemRole))]
               /\ Goto(r, "chat_api")
    /\ UNCHANGED <<users, convs, now, conversationDefined, req>>

\* faulty variant: the user turn is saved although the call failed
ChatApiReturn_Persist(r) ==
    /\ pc[r] = "chat_api"
    /\ \/ \E reply \in Replies :
             /\ ctx' = [ctx EXCEPT ![r].botResponse = reply]
             /\ Goto(r, "chat_save_user_turn")
             /\ UNCHANGED convs
       \/ /\ Respond(r, Response(500, MsgChatError, NoToken, Undef, {}))
          /\ convs' = Append(convs, Turn(<<r, 1>>, ctx[r].user, "user", req[r].message))
          /\ UNCHANGED ctx
    /\ UNCHANGED <<users, now, conversationDefined, req, apiCalls>>

\* the completion API answers, or the call fails and getChatGPTResponse
\* throws: the handler's catch responds 500
ChatApiReturn(r) ==
    /\ pc[r] = "chat_api"
    /\ \/ \E reply \in Replies :
             /\ ctx' = [ctx EXCEPT ![r].botResponse = reply]
             /\ Goto(r, "chat_save_user_turn")
       \/ /\ Respond(r, Response(500, MsgChatError, NoToken, Undef, {}))
          /\ UNCHANGED ctx
    /\ UNCHANGED <<users, convs, now, conversationDefined, req, apiCalls>>

\* await new Conversation({ userId, role: 'user', content: message }).save()
ChatSaveUserTurn(r) ==
    /\ pc[r] = "chat_save_user_turn"
    /\ \/ /\ convs' = Append(convs, Turn(<<r, 1>>, ctx[r].user, "user", req[r].message))
          /\ Goto(r, "chat_save_assistant_turn")
       \/ /\ Respond(r, Response(500, MsgChatError, NoToken, Undef, {}))
          /\ UNCHANGED convs
    /\ UNCHANGED <<users, now, conversationDefined, req, ctx, apiCalls>>

\* faulty variant: the response is sent without saving the assistant turn
ChatSaveAssistantTurn_Early(r) ==
    /\ pc[r] = "chat_save_assistant_turn"
    /\ Respond(r, Response(200, Undef, NoToken, ctx[r].botResponse, {}))
    /\ UNCHANGED <<users, convs, now, conversationDefined, req, ctx, apiCalls>>

\* await new Conversation({ userId, role: 'assistant', content: botResponse })
\* .save(); res.json({ response: botResponse })
ChatSaveAssistantTurn(r) ==
    /\ pc[r] = "chat_save_assistant_turn"
    /\ \/ /\ convs' = Append(convs, Turn(<<r, 2>>, ctx[r].user, "assistant",
                                         ctx[r].botResponse))
          /\ Respond(r, Response(200, Undef, NoToken, ctx[r].botResponse, {}))
       \/ /\ Respond(r, Response(500, MsgChatError, NoToken, Undef, {}))
          /\ UNCHANGED convs
    /\ UNCHANGED <<users, now, conversationDefined, req, ctx, apiCalls>>

(* ------------------------------ the clock ------------------------------ *)

Tick ==
    /\ now < MaxTime
    /\ now' = now + 1
    /\ UNCHANGED <<users, convs, conversationDefined, pc, req, resp, ctx, apiCalls>>

(* ---------------------------- specification ---------------------------- *)

(* The whole server: every route, with every input.  The specifications    *)
(* after it take the same actions route by route, with the inputs each     *)
(* group of properties needs.                                              *)
Next ==
    \/ Tick
    \/ \E r \in Reqs : RegisterStart(r)
    \/ \E r \in Reqs : RegisterFind(r)
    \/ \E r \in Reqs : RegisterSave(r)
    \/ \E r \in Reqs : LoginStart(r)
    \/ \E r \in Reqs : LoginFind(r)
    \/ \E r \in Reqs : LoginCompare(r)
    \/ \E r \in Reqs : UsersStart(r)
    \/ \E r \in Reqs : UsersFind(r)
    \/ \E r \in Reqs : ChatStart(r)
    \/ \E r \in Reqs : ChatFindById(r)
    \/ \E r \in Reqs : ChatSaveRole(r)
    \/ \E r \in Reqs : ChatFind(r)
    \/ \E r \in Reqs : ChatApiReturn(r)
    \/ \E r \in Reqs : ChatSaveUserTurn(r)
    \/ \E r \in Reqs : ChatSaveAssistantTurn(r)

Spec == Init /\ [][Next]_vars

(* Registration and login alone, with every input. *)
NextAuth ==
    \/ \E r \in Reqs : RegisterStart(r)
    \/ \E r \in Reqs : RegisterFind(r)
    \/ \E r \in Reqs : RegisterSave(r)
    \/ \E r \in Reqs : LoginStart(r)
    \/ \E r \in Reqs : LoginFind(r)
    \/ \E r \in Reqs : LoginCompare(r)

SpecAuth == Init /\ [][NextAuth]_vars

(* Tokens over time: a registration, logins of one user, the clock, and    *)
(* both protected routes, for clients that send a token they were given.   *)
NextToken ==
    \/ Tick
    \/ \E r \in Reqs : RegisterStartWith(r, {"luffy"}, {"c@x"}, {"pw1"})
    \/ \E r \in Reqs : RegisterFind(r)
    \/ \E r \in Reqs : RegisterSave(r)
    \/ \E r \in Reqs : LoginStartWith(r, {"a@x"}, {"pw1"})
    \/ \E r \in Reqs : LoginFind(r)
    \/ \E r \in Reqs : LoginCompare(r)
    \/ \E r \in Reqs : UsersStartWith(r, BearerHeaders(IssuedTokens))
    \/ \E r \in Reqs : UsersFind(r)
    \/ \E r \in Reqs : ChatStartWith(r, BearerHeaders(IssuedTokens),
                                     {MessageOf(r)}, {Undef})
    \/ \E r \in Reqs : ChatFindById(r)
    \/ \E r \in Reqs : ChatFind(r)
    \/ \E r \in Reqs : ChatApiReturn(r)
    \/ \E r \in Reqs : ChatSaveUserTurn(r)
    \/ \E r \in Reqs : ChatSaveAssistantTurn(r)

SpecToken == Init /\ [][NextToken]_vars

(* The gate of the protected routes, with every header, at one time.       *)
NextGate ==
    \/ \E r \in Reqs : UsersStart(r)
    \/ \E r \in Reqs : UsersFind(r)
    \/ \E r \in Reqs : ChatStartWith(r, Headers, {MessageOf(r)}, {Undef})
    \/ \E r \in Reqs : ChatFindById(r)
    \/ \E r \in Reqs : ChatFind(r)
    \/ \E r \in Reqs : ChatApiReturn(r)
    \/ \E r \in Reqs : ChatSaveUserTurn(r)
    \/ \E r \in Reqs : ChatSaveAssistantTurn(r)

SpecGate == Init /\ [][NextGate]_vars

(* Chat requests of clients that hold a token, each with a message of its  *)
(* own, with and without a systemRole.                                     *)
NextChat ==
    \/ \E r \in Reqs : ChatStartWith(r, BearerHeaders(IssuedTokens \cup {GhostToken}),
                                     {MessageOf(r)}, {Undef, "pirate"})
    \/ \E r \in Reqs : ChatFindById(r)
    \/ \E r \in Reqs : ChatSaveRole(r)
    \/ \E r \in Reqs : ChatFind(r)
    \/ \E r \in Reqs : ChatApiReturn(r)
    \/ \E r \in Reqs : ChatSaveUserTurn(r)
    \/ \E r \in Reqs : ChatSaveAssistantTurn(r)

SpecChat == Init /\ [][NextChat]_vars

(* ======================================================================= *)
(*                               properties                                *)
(* ======================================================================= *)

IsChat(r) == req[r].route = "chatbot"
IsProtected(r) == req[r].route \in {"users", "chatbot"}

\* the Conversation documents that request r created
TurnsOf(r) == {i \in 1..Len(convs) : convs[i].id[1] = r}

(* ---------------------------------- C1 --------------------------------- *)

\* a registration with all three fields that arrived when a record with its
\* email was already in the store
DuplicateRegistration(r) ==
    /\ req[r].route = "register"
    /\ Truthy(req[r].name) /\ Truthy(req[r].email) /\ Truthy(req[r].password)
    /\ req[r].existed

\* C1: a registration (name, email and password present) handled when a user
\* record with its email already exists is answered 400 without a token, never
\* reaches the save, and no record created by it is ever in the store.
C1_DuplicateRegistrationRejected ==
    \A r \in Reqs :
        DuplicateRegistration(r) =>
            /\ pc[r] \in {"reg_find", "done"}
            /\ pc[r] = "done" =>
                   /\ resp[r].status = 400
                   /\ resp[r].message = MsgUserExists
                   /\ resp[r].token = NoToken
            /\ ~ \E u \in users : u.id = r
            /\ \E u \in users : u.email = req[r].email

C1_Witness ==
    \E r \in Reqs :
        DuplicateRegistration(r) /\ pc[r] = "done" /\ resp[r].status = 400

(* ---------------------------------- C2 --------------------------------- *)

\* C2: in every reachable state, whatever the interleaving of the lookups and
\* the saves of concurrent registrations, the store holds at most one user
\* record per email.
C2_EmailUnique ==
    \A u \in users : \A v \in users : u.email = v.email => u = v

\* two registrations of one email both passed the lookup; the save of the
\* second was refused
C2_Witness ==
    \E r1 \in Reqs : \E r2 \in Reqs :
        /\ r1 # r2
        /\ req[r1].route = "register" /\ req[r2].route = "register"
        /\ req[r1].email = req[r2].email
        /\ resp[r1].status = 201
        /\ resp[r2].status = 500

(* ---------------------------------- C3 --------------------------------- *)

LoginWithFields(r) ==
    /\ req[r].route = "login" /\ pc[r] = "done"
    /\ Truthy(req[r].email) /\ Truthy(req[r].password)

\* a finished login whose email has no user record
LoginUnknownEmail(r) ==
    /\ LoginWithFields(r)
    /\ ~ \E u \in users : u.email = req[r].email

\* a finished login whose email had a record when it arrived, with a
\* password that is not the one of that record
LoginWrongPassword(r) ==
    /\ LoginWithFields(r)
    /\ req[r].existed
    /\ \E u \in users :
          /\ u.email = req[r].email
          /\ u.password # BcryptHash(req[r].password, u.password[2])

\* C3: a login with an unknown email and a login with a known email and a
\* wrong password get the same response: status 400, the same message, no
\* token; nothing in the response tells the two cases apart.
C3_LoginFailuresIndistinguishable ==
    /\ \A r \in Reqs :
          LoginUnknownEmail(r) \/ LoginWrongPassword(r) =>
              resp[r].status = 400 /\ resp[r].token = NoToken
    /\ \A r1 \in Reqs : \A r2 \in Reqs :
          LoginUnknownEmail(r1) /\ LoginWrongPassword(r2) => resp[r1] = resp[r2]

C3_Witness ==
    \E r1 \in Reqs : \E r2 \in Reqs :
        LoginUnknownEmail(r1) /\ LoginWrongPassword(r2)

(* ---------------------------------- C4 --------------------------------- *)

\* the handler of a protected request was entered: next() was called
Accepted(r) ==
    /\ pc[r] # "idle"
    /\ ~(pc[r] = "done" /\ resp[r].status \in {401, 403})

\* request r is a protected request that carries the token tok, a token the
\* server issued (in a response, or to a user registered earlier)
Presents(r, tok) ==
    /\ IsProtected(r) /\ pc[r] # "idle"
    /\ req[r].auth = Header(TRUE, <<BearerPrefix, tok>>)
    /\ tok \in IssuedTokens \cup {GhostToken}

\* C4: a token issued at time T (tok.iat) is accepted on every protected
\* request made before T + 1h and rejected with 403 on every protected request
\* made after T + 1h; no response other than a successful register or login
\* carries a token, so nothing but a new login renews it.
C4_TokenLifetime ==
    /\ \A r \in Reqs : \A tok \in IssuedTokens \cup {GhostToken} :
          Presents(r, tok) =>
              /\ req[r].at < tok.iat + ExpiresIn =>
                     Accepted(r) /\ ctx[r].user = tok.id
              /\ req[r].at > tok.iat + ExpiresIn =>
                     pc[r] = "done" /\ resp[r].status = 403
    /\ \A r \in Reqs :
          resp[r].token # NoToken =>
              /\ req[r].route \in {"register", "login"}
              /\ resp[r].status \in {200, 201}
              /\ resp[r].token.iat >= req[r].at

\* one token, accepted on a request before its expiry and rejected on a
\* request after it
C4_Witness ==
    \E r1 \in Reqs : \E r2 \in Reqs : \E tok \in IssuedTokens :
        /\ Presents(r1, tok) /\ Presents(r2, tok)
        /\ req[r1].at < tok.iat + ExpiresIn /\ Accepted(r1) /\ pc[r1] = "done"
        /\ req[r2].at > tok.iat + ExpiresIn /\ resp[r2].status = 403

(* ---------------------------------- C5 --------------------------------- *)

\* the text after 'Bearer ' of the header of request r
Presented(r) == TokenOf(req[r].auth)

\* not a token this server signed
Malformed(tok) == tok.kind # "jwt" \/ tok.sig # JwtSecret

\* a token this server signed, past its expiry at time t
Expired(tok, t) == tok.kind = "jwt" /\ tok.sig = JwtSecret /\ t >= tok.exp

\* nothing of the route handler of request r has happened: no identity was
\* attached, nothing was read into its locals, no call of the completion
\* API, no document created, no payload in the response
HandlerNotRun(r) ==
    /\ ctx[r] = NoContext
    /\ apiCalls[r] = <<>>
    /\ TurnsOf(r) = {}
    /\ resp[r].users = {} /\ resp[r].response = Undef /\ resp[r].token = NoToken

\* C5: on both protected routes a request without an Authorization header is
\* answered 401 and a request with a malformed or expired token 403, and in
\* both cases the route handler never runs; the handler runs only for a
\* verified token, whose identity is attached to the request.
C5_ProtectedRoutesGated ==
    \A r \in Reqs :
        IsProtected(r) /\ pc[r] # "idle" =>
            /\ ~req[r].auth.present =>
                   pc[r] = "done" /\ resp[r].status = 401 /\ HandlerNotRun(r)
            /\ /\ req[r].auth.present
               /\ ExtractToken(req[r].auth) # <<>>
               /\ Malformed(Presented(r)) \/ Expired(Presented(r), req[r].at)
               => pc[r] = "done" /\ resp[r].status = 403 /\ HandlerNotRun(r)
            /\ ~HandlerNotRun(r) =>
                   /\ ~Malformed(Presented(r))
                   /\ ~Expired(Presented(r), req[r].at)
                   /\ ctx[r].user = Presented(r).id

\* a request without header on one route, one with an expired token and one
\* with a malformed token on the other
C5_Witness ==
    \E r1 \in Reqs : \E r2 \in Reqs :
        /\ IsProtected(r1) /\ IsProtected(r2) /\ req[r1].route # req[r2].route
        /\ ~req[r1].auth.present /\ resp[r1].status = 401
        /\ req[r2].auth.present /\ resp[r2].status = 403
        /\ Expired(Presented(r2), req[r2].at)

(* ---------------------------------- C6 --------------------------------- *)

\* the {role, content} pairs of the documents of user u among the first n
\* documents of the Conversation collection, in insertion order
RECURSIVE StoredHistory(_, _)
StoredHistory(n, u) ==
    IF n = 0 THEN <<>>
    ELSE IF convs[n].userId = u
         THEN Append(StoredHistory(n - 1, u), Msg(convs[n].role, convs[n].content))
         ELSE StoredHistory(n - 1, u)

\* the user a chat request acts for
ChatUser(r) == Presented(r).id

\* request r called the completion API
Forwarded(r) == IsChat(r) /\ apiCalls[r] # <<>>

\* r2 read the collection after r1 had finished with 200, and the documents
\* of their user in the collection were then the two of r1 and no others
InSequence(r1, r2) ==
    /\ r1 # r2
    /\ IsChat(r1) /\ resp[r1].status = 200
    /\ Forwarded(r2) /\ ChatUser(r1) = ChatUser(r2)
    /\ {i \in 1..ctx[r2].seen : convs[i].userId = ChatUser(r2)} = TurnsOf(r1)

C7_StoredRoleIsSent ==
    \A r \in Reqs :
        /\ IsChat(r) /\ pc[r] = "done"
        /\ ~Truthy(req[r].systemRole)
        /\ Truthy(ctx[r].doc.systemRole)
        /\ \E r0 \in 1..(r - 1) :
              /\ IsChat(r0) /\ pc[r0] = "done" /\ ChatUser(r0) = ChatUser(r)
              /\ req[r0].systemRole = ctx[r].doc.systemRole
        => /\ apiCalls[r] # <<>>
           /\ apiCalls[r][1][1] = Msg("system", ctx[r].doc.systemRole)

(* ---------------------------------- C8 --------------------------------- *)

\* the completion API call of request r failed: the call was made, no reply
\* was received and the request is over
ApiFailed(r) ==
    /\ IsChat(r) /\ pc[r] = "done"
    /\ apiCalls[r] # <<>>
    /\ ctx[r].botResponse = Undef

TwoTurnsAppended(r) ==
    /\ Cardinality(TurnsOf(r)) = 2
    /\ \E i \in TurnsOf(r) : \E j \in TurnsOf(r) :
          /\ i < j
          /\ convs[i] = Turn(<<r, 1>>, ChatUser(r), "user", req[r].message)
          /\ convs[j] = Turn(<<r, 2>>, ChatUser(r), "assistant", resp[r].response)

\* the collection before a step is a prefix of the collection after it
ConvsOnlyGrow ==
    /\ Len(convs) <= Len(convs')
    /\ SubSeq(convs', 1, Len(convs)) = convs

OrphanChat(r) ==
    /\ IsChat(r) /\ Accepted(r)
    /\ ~ \E u \in users : u.id = ChatUser(r)

\* C10: a chat request with a valid token whose user record is absent, with
\* or without a systemRole, ends with 500, never calls the completion API and
\* persists no conversation turn.
C10_AbsentUserFails ==
    \A r \in Reqs :
        OrphanChat(r) =>
            /\ pc[r] \in {"chat_user", "chat_find", "done"}
            /\ pc[r] = "done" => resp[r].status = 500
            /\ apiCalls[r] = <<>>
            /\ TurnsOf(r) = {}
            /\ ctx[r].doc = NoUser

\* one such request with a systemRole and one without, both over, where
\* Conversation resolves
C10_Witness ==
    \E r1 \in Reqs : \E r2 \in Reqs :
        /\ conversationDefined
        /\ OrphanChat(r1) /\ pc[r1] = "done" /\ Truthy(req[r1].systemRole)
        /\ OrphanChat(r2) /\ pc[r2] = "done" /\ ~Truthy(req[r2].systemRole)

====
